---- MODULE Spec2Model ----
(***************************************************************************)
(* Record store and job lifecycle of the vehicle-occlusion backend.        *)
(*                                                                         *)
(* The detections collection is one JSON file that every mutation reads    *)
(* whole and rewrites whole (dataService.js).  Detection (models/          *)
(* Detection.js) is an in-memory copy of one record whose save() writes    *)
(* the copy back through dataService.  The analysis route and the          *)
(* background job (routes/detectionRoutes.js) drive those calls; each      *)
(* await on a file read or a file write is a point where other requests    *)
(* and jobs run, so every handler is cut into one action per await.        *)
(*                                                                         *)
(* Abstractions:                                                           *)
(*  - ids are integers drawn from a counter (uuidv4 never repeats);        *)
(*  - timestamps are readings of an integer clock `now`; 0 is undefined;   *)
(*  - a vehicle is its occlusion.isOccluded flag; a missing vehicle list   *)
(*    is the empty list (save() treats both alike);                        *)
(*  - a percentage is the exact fraction <<numerator, denominator>>;       *)
(*  - errorDetails is 0 for {} and a positive error code otherwise;        *)
(*  - an undefined number is Undef.                                        *)
(* The routes call the model through its Mongoose-era names; they are      *)
(* read as the file-backed calls of the same meaning: findOne and findById *)
(* are one read of the collection, save() of a new object is               *)
(* createDetection, save() of a loaded object is updateDetection,          *)
(* findByIdAndDelete is deleteDetection.                                   *)
(***************************************************************************)
EXTENDS Integers, Sequences, FiniteSets, TLC

VARIABLES
  detections,   \* content of detections.json: a sequence of records
  uploads,      \* content of uploads.json: a sequence of records (their ids)
  boot,         \* whether detections.json exists, and where
                \* initializeDataFiles stands with it
  now,          \* the wall clock read by new Date()
  nextId,       \* the next identifier uuidv4() hands out
  client,       \* the requests in flight, one slot per client
  job,          \* the background task of each detection id
  timers,       \* pending setTimeout callbacks per detection id
  runs,         \* how many times processVehicleDetection was entered per id
  createdOk,    \* ids handed back by a create that returned
  removedOk,    \* ids whose delete returned true
  issued        \* number of requests received so far

vars == <<detections, uploads, boot, now, nextId, client, job, timers, runs, createdOk, removedOk,
          issued>>

----------------------------------------------------------------------------
(* Bounds of the model *)

NumClients == 2
MaxRequests == 2
MaxTime == 2
MaxId == 2
MaxAnn == 1
MaxVehicles == 2
MaxCalls == 2

Clients == 1..NumClients
Ids == 1..MaxId
NumUploads == 1
Uploads == 1..NumUploads

Undef == 0 - 1
UndefPct == <<Undef, 1>>

\* "" is a missing status (falsy, as undefined is).
Statuses == {"pending", "processing", "completed", "failed", "cancelled"}
Terminal == {"completed", "failed", "cancelled"}

PROCESSING_ERROR == 1

Fields == {"id", "uploadId", "status", "processingStartTime", "processingEndTime",
           "processingDuration", "results", "annotations", "errorDetails",
           "createdAt", "updatedAt"}

\* The keys Detection.save() puts in the object it hands to dataService.
SaveKeys == {"uploadId", "status", "processingStartTime", "processingEndTime",
             "processingDuration", "results", "annotations", "errorDetails"}

----------------------------------------------------------------------------
(* Values *)

\* results: { processingMetadata: { parameters } } of the analysis route:
\* no vehicle list and no statistics.
NoResults == [totalVehicles |-> Undef, occludedVehicles |-> Undef,
                 occlusionPercentage |-> UndefPct, vehicles |-> <<>>]

\* The mock result of the job: 3 vehicles, the second occluded, with the
\* statistics 3 / 1 / 33.33 written by hand.
mockResults == [totalVehicles |-> 3, occludedVehicles |-> 1,
                occlusionPercentage |-> <<3333, 100>>,
                vehicles |-> <<FALSE, TRUE, FALSE>>]

\* An object with none of the keys.
NoRecord == [id |-> 0, uploadId |-> 0, status |-> "",
             processingStartTime |-> 0, processingEndTime |-> 0,
             processingDuration |-> Undef, results |-> NoResults,
             annotations |-> <<>>, errorDetails |-> 0,
             createdAt |-> 0, updatedAt |-> 0]

\* Object spread { ...a, ...b } where b carries the keys `keys`.
Spread(a, b, keys) == [f \in Fields |-> IF f \in keys THEN b[f] ELSE a[f]]

RECURSIVE CountTrue(_)
CountTrue(s) == IF s = <<>> THEN 0
                ELSE (IF Head(s) THEN 1 ELSE 0) + CountTrue(Tail(s))

\* detections.findIndex(d => d.id === id): 0 when absent.
RECURSIVE FindIndexFrom(_, _, _)
FindIndexFrom(s, id, i) ==
  IF i > Len(s) THEN 0
  ELSE IF s[i].id = id THEN i ELSE FindIndexFrom(s, id, i + 1)

FindIndex(s, id) == FindIndexFrom(s, id, 1)

\* detections.filter(p)
RECURSIVE FilterOutId(_, _)
FilterOutId(s, id) ==
  IF s = <<>> THEN <<>>
  ELSE IF Head(s).id = id THEN FilterOutId(Tail(s), id)
       ELSE <<Head(s)>> \o FilterOutId(Tail(s), id)

RECURSIVE FindIndexByUploadFrom(_, _, _)
FindIndexByUploadFrom(s, u, i) ==
  IF i > Len(s) THEN 0
  ELSE IF s[i].uploadId = u THEN i ELSE FindIndexByUploadFrom(s, u, i + 1)

FindIndexByUpload(s, u) == FindIndexByUploadFrom(s, u, 1)

----------------------------------------------------------------------------
(* models/Detection.js *)

\* new Detection(detectionData): a missing status becomes 'pending'.  The
\* other defaults ([] for annotations, {} for errorDetails) are the values
\* that already stand for a missing field here, and every object of the model
\* carries results.
Detection(detectionData) ==
  [detectionData EXCEPT
     !.status = IF detectionData.status = "" THEN "pending" ELSE detectionData.status]

\* The part of save() before the dataService call: the derived fields.
saveDerived(this) ==
  LET v == this.results.vehicles
      occludedCount == CountTrue(v)
  IN [this EXCEPT
        !.processingDuration =
            IF this.processingStartTime # 0 /\ this.processingEndTime # 0
            THEN this.processingEndTime - this.processingStartTime
            ELSE this.processingDuration,
        !.results =
            IF Len(v) > 0
            THEN [this.results EXCEPT !.occludedVehicles = occludedCount,
                                     !.occlusionPercentage = <<occludedCount * 100, Len(v)>>]
            ELSE this.results]

\* The part of updateStatus(status, errorDetails) before save(); errorDetails
\* 0 is the default null.
updateStatusFields(this, status, errorDetails, t) ==
  LET a == [this EXCEPT !.status = status]
      b == IF status = "processing" /\ a.processingStartTime = 0
           THEN [a EXCEPT !.processingStartTime = t]
           ELSE IF status \in Terminal /\ a.processingEndTime = 0
                THEN [a EXCEPT !.processingEndTime = t]
                ELSE a
  IN IF errorDetails # 0 THEN [b EXCEPT !.errorDetails = errorDetails] ELSE b

----------------------------------------------------------------------------
(* services/dataService.js: the synchronous part of each mutation, between *)
(* its read of the file and its write                                      *)

\* { id: uuidv4(), ...detectionData, createdAt, updatedAt }
newDetection(uuid, detectionData, keys, t) ==
  [Spread([NoRecord EXCEPT !.id = uuid], detectionData, keys)
     EXCEPT !.createdAt = t, !.updatedAt = t]

\* createDetection: detections.push(newDetection)
createDetectionList(file, uuid, detectionData, keys, t) ==
  Append(file, newDetection(uuid, detectionData, keys, t))

\* updateDetection: { ...detections[i], ...updateData, updatedAt }
mergedDetection(old, updateData, keys, t) ==
  [Spread(old, updateData, keys) EXCEPT !.updatedAt = t]

updateDetectionList(file, i, updateData, keys, t) ==
  [file EXCEPT ![i] = mergedDetection(file[i], updateData, keys, t)]

\* deleteDetection: detections.filter(d => d.id !== id)
deleteDetectionList(file, id) == FilterOutId(file, id)

----------------------------------------------------------------------------
(* The requests and the background jobs *)

\* was is the status the request found stored when it loaded its Detection,
\* ret the value the request's deleteDetection call returned; readFailed and
\* writeFailed tell that readData / writeData of the request caught an error.
IdleClient == [pc |-> "idle", op |-> "none", arg |-> 0, inst |-> NoRecord,
               buf |-> <<>>, resp |-> 0, was |-> "", ret |-> FALSE,
               readFailed |-> FALSE, writeFailed |-> FALSE]

\* out is how the analysis of the job ended: it returned or it threw.
IdleJob == [pc |-> "idle", inst |-> NoRecord, buf |-> <<>>, out |-> "none"]

\* The uploads the upload route has stored before the first request here.
StoredUploads == [u \in Uploads |-> [id |-> u]]

\* initializeDataFiles has finished and detections.json exists.
Booted == [exists |-> TRUE, pc |-> "done"]

\* fs.writeJson creates the file when there is none.
Written == [boot EXCEPT !.exists = TRUE]

Init ==
  /\ detections = <<>>
  /\ uploads = StoredUploads
  /\ boot = Booted
  /\ now = 1
  /\ nextId = 1
  /\ client = [c \in Clients |-> IdleClient]
  /\ job = [d \in Ids |-> IdleJob]
  /\ timers = [d \in Ids |-> 0]
  /\ runs = [d \in Ids |-> 0]
  /\ createdOk = {}
  /\ removedOk = {}
  /\ issued = 0

\* A client may issue its next request.
Ready(c) == client[c].pc \in {"idle", "done"} /\ issued < MaxRequests

Begin(c, op, arg) ==
  [client[c] EXCEPT !.op = op, !.arg = arg, !.resp = 0, !.buf = <<>>,
                    !.inst = NoRecord, !.was = "", !.ret = FALSE,
                    !.readFailed = FALSE, !.writeFailed = FALSE]

\* The clock advances between any two steps.
Tick ==
  /\ now < MaxTime
  /\ now' = now + 1
  /\ UNCHANGED <<boot, uploads, detections, nextId, client, job, timers, runs, createdOk, removedOk, issued>>

(* POST /api/detection/analyze *)

\* Upload.findOne({ _id: uploadId }): 404 when there is none.
\* Detection.findOne({ uploadedFile: uploadId }): 400 when one exists, else
\* new Detection({ ..., status: 'pending', results: { processingMetadata } })
\* and save() up to createDetection's read.
AnalyzeCheck(c, uploadId) ==
  /\ Ready(c)
  /\ LET b == Begin(c, "analyze", uploadId) IN
     IF FindIndex(uploads, uploadId) = 0
     THEN client' = [client EXCEPT ![c] = [b EXCEPT !.pc = "done", !.resp = 404]]
     ELSE IF FindIndexByUpload(detections, uploadId) # 0
     THEN client' = [client EXCEPT ![c] = [b EXCEPT !.pc = "done", !.resp = 400]]
     ELSE client' = [client EXCEPT ![c] = [b EXCEPT
            !.pc = "createRead",
            !.inst = saveDerived(Detection([NoRecord EXCEPT
                        !.uploadId = uploadId, !.status = "pending"]))]]
  /\ issued' = issued + 1
  /\ UNCHANGED <<boot, uploads, detections, now, nextId, job, timers, runs, createdOk, removedOk>>

\* createDetection: the read of the collection and the push of the new record.
AnalyzeCreateRead(c) ==
  /\ client[c].pc = "createRead"
  /\ nextId <= MaxId
  /\ client' = [client EXCEPT ![c] = [@ EXCEPT
        !.pc = "createWrite",
        !.buf = createDetectionList(detections, nextId, client[c].inst, SaveKeys, now)]]
  /\ nextId' = nextId + 1
  /\ UNCHANGED <<boot, uploads, detections, now, job, timers, runs, createdOk, removedOk, issued>>

\* createDetection: the write of the collection.
AnalyzeCreateWrite(c) ==
  /\ client[c].pc = "createWrite"
  /\ detections' = client[c].buf
  /\ client' = [client EXCEPT ![c] = [@ EXCEPT
        !.pc = "created", !.inst = client[c].buf[Len(client[c].buf)]]]
  /\ boot' = Written
  /\ UNCHANGED <<uploads, now, nextId, job, timers, runs, createdOk, removedOk, issued>>

\* The route with the timer armed twice.
AnalyzeRespondTwice(c) ==
  /\ client[c].pc = "created"
  /\ timers' = [timers EXCEPT ![client[c].inst.id] = @ + 2]
  /\ createdOk' = createdOk \cup {client[c].inst.id}
  /\ client' = [client EXCEPT ![c] = [@ EXCEPT !.pc = "done", !.resp = 201, !.buf = <<>>]]
  /\ UNCHANGED <<boot, uploads, detections, now, nextId, job, runs, removedOk, issued>>

\* Back in the route: setTimeout(processVehicleDetection(detection._id), 100)
\* and the 201 response.
AnalyzeRespond(c) ==
  /\ client[c].pc = "created"
  /\ timers' = [timers EXCEPT ![client[c].inst.id] = @ + 1]
  /\ createdOk' = createdOk \cup {client[c].inst.id}
  /\ client' = [client EXCEPT ![c] = [@ EXCEPT !.pc = "done", !.resp = 201, !.buf = <<>>]]
  /\ UNCHANGED <<boot, uploads, detections, now, nextId, job, runs, removedOk, issued>>

(* A caller of the model: Detection.findById(id), then updateStatus(status) *)

\* findById, the field changes of updateStatus, and save() up to
\* updateDetection's read.
StatusFind(c, id, status) ==
  /\ Ready(c)
  /\ LET b == Begin(c, "updateStatus", id)
         i == FindIndex(detections, id) IN
     IF i = 0
     THEN client' = [client EXCEPT ![c] = [b EXCEPT !.pc = "done", !.resp = 404]]
     ELSE client' = [client EXCEPT ![c] = [b EXCEPT
            !.pc = "updateRead", !.was = detections[i].status,
            !.inst = saveDerived(
                       updateStatusFields(Detection(detections[i]), status, 0, now))]]
  /\ issued' = issued + 1
  /\ UNCHANGED <<boot, uploads, detections, now, nextId, job, timers, runs, createdOk, removedOk>>

(* POST /api/detection/:id/annotate *)

\* findOne, annotations.push(annotation), and save() up to updateDetection's
\* read.  The annotation is named after the client that sent it.
AnnotateFind(c, id) ==
  /\ Ready(c)
  /\ LET b == Begin(c, "annotate", id)
         i == FindIndex(detections, id) IN
     IF i = 0
     THEN client' = [client EXCEPT ![c] = [b EXCEPT !.pc = "done", !.resp = 404]]
     ELSE /\ Len(detections[i].annotations) < MaxAnn
          /\ client' = [client EXCEPT ![c] = [b EXCEPT
               !.pc = "updateRead",
               !.inst = saveDerived([Detection(detections[i]) EXCEPT
                           !.annotations = Append(@, c)])]]
  /\ issued' = issued + 1
  /\ UNCHANGED <<boot, uploads, detections, now, nextId, job, timers, runs, createdOk, removedOk>>

\* updateDetection: the read of the collection, findIndex and the merge.
\* A missing id returns null, which save() ignores.
UpdateRead(c) ==
  /\ client[c].pc = "updateRead"
  /\ LET i == FindIndex(detections, client[c].inst.id) IN
     IF i = 0
     THEN client' = [client EXCEPT ![c] = [@ EXCEPT !.pc = "done", !.resp = 200, !.inst = NoRecord, !.buf = <<>>, !.was = ""]]
     ELSE client' = [client EXCEPT ![c] = [@ EXCEPT
            !.pc = "updateWrite",
            !.buf = updateDetectionList(detections, i, client[c].inst, SaveKeys, now),
            !.inst = mergedDetection(detections[i], client[c].inst, SaveKeys, now)]]
  /\ UNCHANGED <<boot, uploads, detections, now, nextId, job, timers, runs, createdOk, removedOk, issued>>

\* updateDetection: the write of the collection, and the response.
UpdateWrite(c) ==
  /\ client[c].pc = "updateWrite"
  /\ detections' = client[c].buf
  /\ client' = [client EXCEPT ![c] = [@ EXCEPT !.pc = "done", !.resp = 200, !.inst = NoRecord, !.buf = <<>>, !.was = ""]]
  /\ boot' = Written
  /\ UNCHANGED <<uploads, now, nextId, job, timers, runs, createdOk, removedOk, issued>>

(* DELETE /api/detection/:id *)

DeleteFind(c, id) ==
  /\ Ready(c)
  /\ LET b == Begin(c, "delete", id) IN
     IF FindIndex(detections, id) = 0
     THEN client' = [client EXCEPT ![c] = [b EXCEPT !.pc = "done", !.resp = 404]]
     ELSE client' = [client EXCEPT ![c] = [b EXCEPT !.pc = "deleteRead"]]
  /\ issued' = issued + 1
  /\ UNCHANGED <<boot, uploads, detections, now, nextId, job, timers, runs, createdOk, removedOk>>

\* deleteDetection: the read of the collection and the filter.
DeleteRead(c) ==
  /\ client[c].pc = "deleteRead"
  /\ client' = [client EXCEPT ![c] = [@ EXCEPT
        !.pc = "deleteWrite",
        !.buf = deleteDetectionList(detections, client[c].arg),
        !.resp = IF Len(deleteDetectionList(detections, client[c].arg)) < Len(detections)
                 THEN 1 ELSE 0]]
  /\ UNCHANGED <<boot, uploads, detections, now, nextId, job, timers, runs, createdOk, removedOk, issued>>

\* deleteDetection: the write of the collection; resp 1 is its `true`.
DeleteWrite(c) ==
  /\ client[c].pc = "deleteWrite"
  /\ detections' = client[c].buf
  /\ removedOk' = IF client[c].resp = 1 THEN removedOk \cup {client[c].arg} ELSE removedOk
  /\ client' = [client EXCEPT ![c] = [@ EXCEPT !.pc = "done", !.resp = 200, !.inst = NoRecord, !.buf = <<>>,
                                              !.ret = (client[c].resp = 1)]]
  /\ boot' = Written
  /\ UNCHANGED <<uploads, now, nextId, job, timers, runs, createdOk, issued>>

(* processVehicleDetection(detectionId), the callback of the route's timer *)

JobStart(d) ==
  /\ timers[d] > 0
  /\ job[d].pc \in {"idle", "done"}
  /\ timers' = [timers EXCEPT ![d] = @ - 1]
  /\ runs' = [runs EXCEPT ![d] = @ + 1]
  /\ job' = [job EXCEPT ![d] = [IdleJob EXCEPT !.pc = "find"]]
  /\ UNCHANGED <<boot, uploads, detections, now, nextId, client, createdOk, removedOk, issued>>

\* findById; status = 'processing', processingStartTime = new Date(); save()
\* up to updateDetection's read.
JobFind(d) ==
  /\ job[d].pc = "find"
  /\ LET i == FindIndex(detections, d) IN
     IF i = 0
     THEN job' = [job EXCEPT ![d] = [IdleJob EXCEPT !.pc = "done"]]
     ELSE job' = [job EXCEPT ![d] = [@ EXCEPT
            !.pc = "startRead",
            !.inst = saveDerived([Detection(detections[i]) EXCEPT
                        !.status = "processing", !.processingStartTime = now])]]
  /\ UNCHANGED <<boot, uploads, detections, now, nextId, client, timers, runs, createdOk, removedOk, issued>>

\* updateDetection of either save() of the job: read, findIndex, merge.
JobUpdateRead(d, from, missing, to) ==
  /\ job[d].pc = from
  /\ LET i == FindIndex(detections, d) IN
     IF i = 0
     THEN job' = [job EXCEPT ![d] = [@ EXCEPT !.pc = missing,
            !.inst = IF missing = "done" THEN NoRecord ELSE @]]
     ELSE job' = [job EXCEPT ![d] = [@ EXCEPT
            !.pc = to,
            !.buf = updateDetectionList(detections, i, job[d].inst, SaveKeys, now),
            !.inst = mergedDetection(detections[i], job[d].inst, SaveKeys, now)]]
  /\ UNCHANGED <<boot, uploads, detections, now, nextId, client, timers, runs, createdOk, removedOk, issued>>

JobUpdateWrite(d, from, to) ==
  /\ job[d].pc = from
  /\ detections' = job[d].buf
  /\ job' = [job EXCEPT ![d] = [@ EXCEPT !.pc = to, !.buf = <<>>,
        !.inst = IF to = "done" THEN NoRecord ELSE @]]
  /\ boot' = Written
  /\ UNCHANGED <<uploads, now, nextId, client, timers, runs, createdOk, removedOk, issued>>

JobStartRead(d) == JobUpdateRead(d, "startRead", "analyze", "startWrite")

JobStartWrite(d) == JobUpdateWrite(d, "startWrite", "analyze")

\* The analysis returns: status = 'completed', processingEndTime = new Date(),
\* results = { ...detection.results, ...mockResults }; save() up to the read.
JobAnalyzeReturns(d) ==
  /\ job[d].pc = "analyze"
  /\ job' = [job EXCEPT ![d] = [@ EXCEPT
        !.pc = "endRead", !.out = "returned",
        !.inst = saveDerived([job[d].inst EXCEPT
                    !.status = "completed", !.processingEndTime = now,
                    !.results = mockResults])]]
  /\ UNCHANGED <<boot, uploads, detections, now, nextId, client, timers, runs, createdOk, removedOk, issued>>

\* The analysis throws: control passes to the catch block.  The stand-in of
\* the source (a five second timer) never throws; the branch is the real
\* analysis the catch block is written for.
JobAnalyzeThrows(d) ==
  /\ job[d].pc = "analyze"
  /\ job' = [job EXCEPT ![d] = [@ EXCEPT !.pc = "catch", !.out = "threw"]]
  /\ UNCHANGED <<boot, uploads, detections, now, nextId, client, timers, runs, createdOk, removedOk, issued>>

\* The catch block without its errorDetails assignment.
JobCatchFindNoDetails(d) ==
  /\ job[d].pc = "catch"
  /\ LET i == FindIndex(detections, d) IN
     IF i = 0
     THEN job' = [job EXCEPT ![d] = [IdleJob EXCEPT !.pc = "done", !.out = "threw"]]
     ELSE job' = [job EXCEPT ![d] = [@ EXCEPT
            !.pc = "endRead",
            !.inst = saveDerived([Detection(detections[i]) EXCEPT
                        !.status = "failed", !.processingEndTime = now])]]
  /\ UNCHANGED <<boot, uploads, detections, now, nextId, client, timers, runs, createdOk, removedOk, issued>>

\* catch: findById; status = 'failed', processingEndTime = new Date(),
\* errorDetails = { code: 'PROCESSING_ERROR', message }; save() up to the read.
JobCatchFind(d) ==
  /\ job[d].pc = "catch"
  /\ LET i == FindIndex(detections, d) IN
     IF i = 0
     THEN job' = [job EXCEPT ![d] = [IdleJob EXCEPT !.pc = "done", !.out = "threw"]]
     ELSE job' = [job EXCEPT ![d] = [@ EXCEPT
            !.pc = "endRead",
            !.inst = saveDerived([Detection(detections[i]) EXCEPT
                        !.status = "failed", !.processingEndTime = now,
                        !.errorDetails = PROCESSING_ERROR])]]
  /\ UNCHANGED <<boot, uploads, detections, now, nextId, client, timers, runs, createdOk, removedOk, issued>>

JobEndRead(d) == JobUpdateRead(d, "endRead", "done", "endWrite")

JobEndWrite(d) == JobUpdateWrite(d, "endWrite", "done")

Next ==
  \/ Tick
  \/ \E c \in Clients, u \in Uploads : AnalyzeCheck(c, u)
  \/ \E c \in Clients : AnalyzeCreateRead(c)
  \/ \E c \in Clients : AnalyzeCreateWrite(c)
  \/ \E c \in Clients : AnalyzeRespond(c)
  \/ \E c \in Clients, id \in Ids, st \in Statuses : StatusFind(c, id, st)
  \/ \E c \in Clients, id \in Ids : AnnotateFind(c, id)
  \/ \E c \in Clients : UpdateRead(c)
  \/ \E c \in Clients : UpdateWrite(c)
  \/ \E c \in Clients, id \in Ids : DeleteFind(c, id)
  \/ \E c \in Clients : DeleteRead(c)
  \/ \E c \in Clients : DeleteWrite(c)
  \/ \E d \in Ids : JobStart(d)
  \/ \E d \in Ids : JobFind(d)
  \/ \E d \in Ids : JobStartRead(d)
  \/ \E d \in Ids : JobStartWrite(d)
  \/ \E d \in Ids : JobAnalyzeReturns(d)
  \/ \E d \in Ids : JobAnalyzeThrows(d)
  \/ \E d \in Ids : JobCatchFind(d)
  \/ \E d \in Ids : JobEndRead(d)
  \/ \E d \in Ids : JobEndWrite(d)

Spec == Init /\ [][Next]_vars

\* The background task runs once its timer has fired; nothing else is assumed
\* of the scheduler.
FairSpec == Spec /\ \A d \in Ids : WF_vars(JobStart(d))

----------------------------------------------------------------------------
(* Observations on a state *)

Stored(id) == FindIndex(detections, id) # 0

Record(id) == detections[FindIndex(detections, id)]

\* A request or a job that has read the collection for a mutation and has
\* not yet written it back.
ClientInMutation(c) == client[c].pc \in {"createWrite", "updateWrite", "deleteWrite"}

JobInMutation(d) == job[d].pc \in {"startWrite", "endWrite"}

InMutation == {<<"client", c>> : c \in {x \in Clients : ClientInMutation(x)}}
                \cup {<<"job", d>> : d \in {x \in Ids : JobInMutation(x)}}

AnalyzeSucceeded(u) ==
  {c \in Clients : client[c].op = "analyze" /\ client[c].arg = u /\ client[c].resp = 201}

LegalTransitions == {<<"pending", "processing">>, <<"processing", "completed">>,
                     <<"processing", "failed">>, <<"pending", "cancelled">>,
                     <<"processing", "cancelled">>}

----------------------------------------------------------------------------
(* Claims *)

\* C1: of the analysis requests for one upload, at most one creates a
\* Detection (answers 201), however their reads and writes interleave.
C1_AtMostOneAnalyzeSucceeds ==
  \A u \in Uploads : Cardinality(AnalyzeSucceeded(u)) <= 1

\* C2: in every state of the detections collection at most one record
\* references a given upload.
C2_AtMostOneDetectionPerUpload ==
  \A i, j \in 1..Len(detections) :
     detections[i].uploadId = detections[j].uploadId => i = j

\* C3: no two mutations of the detections collection are between their load
\* and their replace at the same time.
C3_MutualExclusion == Cardinality(InMutation) <= 1

\* C4: no lost update: every record a create handed back, and that no delete
\* removed, is in the stored collection.
C4_NoLostUpdate ==
  \A id \in createdOk \ removedOk : Stored(id)

\* C5: a stored Detection in completed, failed or cancelled is never moved
\* to processing.
C5_TerminalNeverProcessing ==
  [][\A id \in Ids :
       (Stored(id) /\ Record(id).status \in Terminal /\ Stored(id)')
         => Record(id)'.status # "processing"]_vars

\* C6: the stored status of a Detection changes only along the five legal
\* transitions of the job lifecycle.
C6_OnlyLegalTransitions ==
  [][\A id \in Ids :
       (Stored(id) /\ Stored(id)')
         => \/ Record(id)'.status = Record(id).status
            \/ <<Record(id).status, Record(id)'.status>> \in LegalTransitions]_vars

\* C7: once a stored Detection is terminal, its status, timestamps, duration,
\* results and errorDetails never change again.
C7_TerminalFrozen ==
  [][\A id \in Ids :
       (Stored(id) /\ Record(id).status \in Terminal /\ Stored(id)')
         => /\ Record(id)'.status = Record(id).status
            /\ Record(id)'.processingStartTime = Record(id).processingStartTime
            /\ Record(id)'.processingEndTime = Record(id).processingEndTime
            /\ Record(id)'.processingDuration = Record(id).processingDuration
            /\ Record(id)'.results = Record(id).results
            /\ Record(id)'.errorDetails = Record(id).errorDetails]_vars

----------------------------------------------------------------------------
(* One caller using the repository directly, one call after the other: each *)
(* action is a whole call (its read, its change, its write), which is what  *)
(* a call is when nothing else runs.  client[1] records the last call and   *)
(* the object it returned.                                                  *)

BoolSeqs == UNION {[1..n -> BOOLEAN] : n \in 0..MaxVehicles}

\* results as a caller may supply them: any statistics beside any list.
ResultsInputs ==
  [totalVehicles : 0..MaxVehicles, occludedVehicles : 0..MaxVehicles,
   occlusionPercentage : {<<0, 1>>, <<50, 1>>}, vehicles : BoolSeqs]

DraftStatuses == {"pending", "completed"}

Draft(uploadId, status, results) ==
  [NoRecord EXCEPT !.uploadId = uploadId, !.status = status, !.results = results]

DraftKeys == {"uploadId", "status", "results"}

Returned(op, rec) ==
  [client EXCEPT ![1] = [IdleClient EXCEPT !.pc = "done", !.op = op,
                                           !.arg = rec.id, !.inst = rec]]

\* Detection.create(draft), that is dataService.createDetection(draft).
RepoCreate(uploadId, status, results) ==
  /\ issued < MaxCalls
  /\ nextId <= MaxId
  /\ LET rec == newDetection(nextId, Draft(uploadId, status, results), DraftKeys, now) IN
     /\ detections' = createDetectionList(detections, nextId,
                         Draft(uploadId, status, results), DraftKeys, now)
     /\ client' = Returned("create", Detection(rec))
  /\ nextId' = nextId + 1
  /\ issued' = issued + 1
  /\ boot' = Written
  /\ UNCHANGED <<uploads, now, job, timers, runs, createdOk, removedOk>>

\* new Detection(draft).save(): no id yet, so save() creates.
RepoSaveNew(uploadId, status, results) ==
  /\ issued < MaxCalls
  /\ nextId <= MaxId
  /\ LET this == saveDerived(Detection(Draft(uploadId, status, results)))
         rec == newDetection(nextId, this, SaveKeys, now) IN
     /\ detections' = createDetectionList(detections, nextId, this, SaveKeys, now)
     /\ client' = Returned("saveNew", rec)
  /\ nextId' = nextId + 1
  /\ issued' = issued + 1
  /\ boot' = Written
  /\ UNCHANGED <<uploads, now, job, timers, runs, createdOk, removedOk>>

\* dataService.updateDetection(id, { results }).
RepoUpdate(id, results) ==
  /\ issued < MaxCalls
  /\ Stored(id)
  /\ LET i == FindIndex(detections, id)
         patch == [NoRecord EXCEPT !.results = results] IN
     /\ detections' = updateDetectionList(detections, i, patch, {"results"}, now)
     /\ client' = Returned("update", mergedDetection(detections[i], patch, {"results"}, now))
  /\ issued' = issued + 1
  /\ boot' = Written
  /\ UNCHANGED <<uploads, now, nextId, job, timers, runs, createdOk, removedOk>>

\* Detection.findById(id), detection.results = results, detection.save().
RepoSaveLoaded(id, results) ==
  /\ issued < MaxCalls
  /\ Stored(id)
  /\ LET i == FindIndex(detections, id)
         this == saveDerived([Detection(detections[i]) EXCEPT !.results = results]) IN
     /\ detections' = updateDetectionList(detections, i, this, SaveKeys, now)
     /\ client' = Returned("saveLoaded", mergedDetection(detections[i], this, SaveKeys, now))
  /\ issued' = issued + 1
  /\ boot' = Written
  /\ UNCHANGED <<uploads, now, nextId, job, timers, runs, createdOk, removedOk>>

RepoNext ==
  \/ Tick
  \/ \E u \in Uploads, st \in DraftStatuses, r \in ResultsInputs : RepoCreate(u, st, r)
  \/ \E u \in Uploads, st \in DraftStatuses, r \in ResultsInputs : RepoSaveNew(u, st, r)
  \/ \E id \in Ids, r \in ResultsInputs : RepoUpdate(id, r)
  \/ \E id \in Ids, r \in ResultsInputs : RepoSaveLoaded(id, r)

RepoSpec == Init /\ [][RepoNext]_vars

\* p * total = occluded * 100 for the fraction p.
PercentageAgrees(r) ==
  /\ r.occlusionPercentage[1] * r.totalVehicles
       = r.occludedVehicles * 100 * r.occlusionPercentage[2]
  /\ r.totalVehicles = 0 => r.occlusionPercentage[1] = 0

\* C8: after a save() the stored results satisfy occlusionPercentage *
\* totalVehicles = occludedVehicles * 100, and the percentage is 0 when
\* totalVehicles is 0, whatever the caller supplied.
C8_PercentageAfterSave ==
  (client[1].op \in {"saveNew", "saveLoaded"} /\ Stored(client[1].arg))
    => PercentageAgrees(Record(client[1].arg).results)

\* C9: in every stored Detection occludedVehicles is the number of vehicles
\* of the list that are occluded, whichever write stored the record.
C9_OccludedIsCounted ==
  \A i \in 1..Len(detections) :
     detections[i].results.occludedVehicles = CountTrue(detections[i].results.vehicles)

----------------------------------------------------------------------------
(* The background task under a fair scheduler                               *)

\* Any step of processVehicleDetection(d).
JobStep(d) ==
  \/ JobStart(d) \/ JobFind(d)
  \/ JobStartRead(d) \/ JobStartWrite(d)
  \/ JobAnalyzeReturns(d) \/ JobAnalyzeThrows(d) \/ JobCatchFind(d)
  \/ JobEndRead(d) \/ JobEndWrite(d)

\* Any step of a request that has been received.
ClientStep(c) ==
  \/ AnalyzeCreateRead(c) \/ AnalyzeCreateWrite(c) \/ AnalyzeRespond(c)
  \/ UpdateRead(c) \/ UpdateWrite(c)
  \/ DeleteRead(c) \/ DeleteWrite(c)

\* The event loop runs every callback that is ready: a task or a request
\* that can take a step eventually takes one.  Whether the analysis returns
\* or throws, and whether a new request arrives, stays open.
LiveSpec ==
  /\ Spec
  /\ \A d \in Ids : WF_vars(JobStep(d))
  /\ \A c \in Clients : WF_vars(ClientStep(c))

\* A status change or a delete has been requested for detection d.
CancelOrDeleteIssued(d) ==
  \E c \in Clients : client[c].arg = d /\ client[c].op \in {"updateStatus", "delete"}

\* The stored record d carries the outcome of a successful analysis.
StoredCompleted(d) ==
  /\ Stored(d)
  /\ LET r == Record(d) IN
       /\ r.status = "completed"
       /\ r.processingStartTime # 0 /\ r.processingEndTime # 0
       /\ r.processingStartTime <= r.processingEndTime
       /\ r.results.totalVehicles = Len(mockResults.vehicles)
       /\ r.results.occludedVehicles = CountTrue(mockResults.vehicles)

\* C11: a detection whose analysis returns a result, and for which no
\* cancellation and no delete is ever requested, is eventually stored as
\* completed, with both processing times set and in order and with the
\* vehicle counts of the returned list (1 occluded of 3).
C11_EventuallyCompleted ==
  \A d \in Ids :
     (<>(job[d].out = "returned") /\ [](~CancelOrDeleteIssued(d)))
        => <>StoredCompleted(d)

\* The stored record d carries the outcome of a failed analysis.
StoredFailed(d) ==
  /\ Stored(d)
  /\ LET r == Record(d) IN
       /\ r.status = "failed"
       /\ r.errorDetails # 0
       /\ r.processingEndTime # 0

----------------------------------------------------------------------------
(* Cancellation: updateStatus('cancelled') on a loaded Detection            *)

\* Client c is about to write the outcome of a cancellation that it
\* requested when the stored status was completed, failed or cancelled.
CancelOfTerminalWrites(c) ==
  /\ client[c].op = "updateStatus"
  /\ client[c].pc = "updateWrite"
  /\ client[c].inst.status = "cancelled"
  /\ client[c].was \in Terminal

\* C13: a cancellation of a Detection whose stored status is completed,
\* failed or cancelled changes nothing: the stored record is the same after
\* the request's write as before it.
C13_CancelOnTerminalIsNoOp ==
  [][\A c \in Clients :
        (/\ CancelOfTerminalWrites(c)
         /\ client'[c].pc = "done"
         /\ Stored(client[c].arg))
           => (Stored(client[c].arg)' /\ Record(client[c].arg)' = Record(client[c].arg))]_vars

----------------------------------------------------------------------------
(* The requests when the file system fails.  readData catches the error of  *)
(* fs.readJson and returns []; writeData catches the error of fs.writeJson  *)
(* and returns false, which no caller looks at.  fs.writeJson opens the     *)
(* file for writing, which empties it, before it writes: a write that fails *)
(* leaves the file as it was (the open failed) or cut short (the write      *)
(* failed), and a file cut short is one every later readData fails on, that *)
(* is, reads as [].                                                         *)

\* The file after a failed writeData.
FailedWrite(intact) == IF intact THEN detections ELSE <<>>

\* createDetection when readData fails: the new record is pushed on [].
CreateReadFails(c) ==
  /\ client[c].pc = "createRead"
  /\ nextId <= MaxId
  /\ client' = [client EXCEPT ![c] = [@ EXCEPT
        !.pc = "createWrite", !.readFailed = TRUE,
        !.buf = createDetectionList(<<>>, nextId, client[c].inst, SaveKeys, now)]]
  /\ nextId' = nextId + 1
  /\ UNCHANGED <<boot, uploads, detections, now, job, timers, runs, createdOk, removedOk, issued>>

\* updateDetection when readData fails: findIndex on [] is -1, the call
\* returns null, save() ignores it and the request answers as usual.
UpdateReadFails(c) ==
  /\ client[c].pc = "updateRead"
  /\ client' = [client EXCEPT ![c] = [@ EXCEPT
        !.pc = "done", !.resp = 200, !.inst = NoRecord, !.buf = <<>>,
        !.was = "", !.readFailed = TRUE]]
  /\ UNCHANGED <<boot, uploads, detections, now, nextId, job, timers, runs, createdOk, removedOk, issued>>

\* deleteDetection when readData fails: the filter of [] is [].
DeleteReadFails(c) ==
  /\ client[c].pc = "deleteRead"
  /\ client' = [client EXCEPT ![c] = [@ EXCEPT
        !.pc = "deleteWrite", !.readFailed = TRUE,
        !.buf = deleteDetectionList(<<>>, client[c].arg),
        !.resp = 0]]
  /\ UNCHANGED <<boot, uploads, detections, now, nextId, job, timers, runs, createdOk, removedOk, issued>>

\* createDetection when writeData fails: newDetection is returned all the same.
CreateWriteFails(c, intact) ==
  /\ client[c].pc = "createWrite"
  /\ detections' = FailedWrite(intact)
  /\ client' = [client EXCEPT ![c] = [@ EXCEPT
        !.pc = "created", !.writeFailed = TRUE,
        !.inst = client[c].buf[Len(client[c].buf)]]]
  /\ UNCHANGED <<boot, uploads, now, nextId, job, timers, runs, createdOk, removedOk, issued>>

\* updateDetection when writeData fails: the merged record is returned.
UpdateWriteFails(c, intact) ==
  /\ client[c].pc = "updateWrite"
  /\ detections' = FailedWrite(intact)
  /\ client' = [client EXCEPT ![c] = [@ EXCEPT
        !.pc = "done", !.resp = 200, !.inst = NoRecord, !.buf = <<>>,
        !.was = "", !.writeFailed = TRUE]]
  /\ UNCHANGED <<boot, uploads, now, nextId, job, timers, runs, createdOk, removedOk, issued>>

\* deleteDetection when writeData fails: the comparison of the two lengths
\* is returned all the same.
DeleteWriteFails(c, intact) ==
  /\ client[c].pc = "deleteWrite"
  /\ detections' = FailedWrite(intact)
  /\ removedOk' = IF client[c].resp = 1 THEN removedOk \cup {client[c].arg} ELSE removedOk
  /\ client' = [client EXCEPT ![c] = [@ EXCEPT
        !.pc = "done", !.resp = 200, !.inst = NoRecord, !.buf = <<>>,
        !.ret = (client[c].resp = 1), !.writeFailed = TRUE]]
  /\ UNCHANGED <<boot, uploads, now, nextId, job, timers, runs, createdOk, issued>>

IoNext ==
  \/ Next
  \/ \E c \in Clients : CreateReadFails(c)
  \/ \E c \in Clients : UpdateReadFails(c)
  \/ \E c \in Clients : DeleteReadFails(c)
  \/ \E c \in Clients, intact \in BOOLEAN : CreateWriteFails(c, intact)
  \/ \E c \in Clients, intact \in BOOLEAN : UpdateWriteFails(c, intact)
  \/ \E c \in Clients, intact \in BOOLEAN : DeleteWriteFails(c, intact)

IoSpec == Init /\ [][IoNext]_vars

\* The request of client c has answered with success.
AnsweredSuccess(c) == client[c].pc = "done" /\ client[c].resp \in {200, 201}

\* C14: a failed read is not taken for an empty collection: the request
\* whose load failed does not answer with success, and a create, update or
\* delete whose load failed writes back every record that was stored, but
\* for the one a delete removes.
C14_FailedReadIsNotEmpty ==
  /\ [](\A c \in Clients : client[c].readFailed => ~AnsweredSuccess(c))
  /\ [][\A c \in Clients :
          (/\ client[c].readFailed
           /\ client[c].pc \in {"createWrite", "updateWrite", "deleteWrite"}
           /\ client'[c].pc # client[c].pc)
             => \A id \in Ids :
                   (Stored(id) /\ ~(client[c].op = "delete" /\ client[c].arg = id))
                      => Stored(id)']_vars

\* C15: a failed write leaves the stored collection as it was, and the
\* create, update or delete whose write failed does not answer with success.
C15_FailedWriteIsReported ==
  /\ [](\A c \in Clients : client[c].writeFailed => ~AnsweredSuccess(c))
  /\ [][\A c \in Clients :
          (~client[c].writeFailed /\ client'[c].writeFailed)
             => detections' = detections]_vars

----------------------------------------------------------------------------
(* One caller using dataService directly, one call after the other, with    *)
(* drafts and patches that may carry the keys id, createdAt and updatedAt.  *)
(* client[1] records the last call: its name, the id it was about (for a    *)
(* create, the uuid it drew) and the value it returned, NoRecord being      *)
(* null.  client[2] holds a Detection instance loaded by findById.          *)

MaxStoreCalls == 4

\* A time stamp written by a caller; the clock of the server never shows it.
ClientTime == MaxTime + 1

DraftKeySets == {{"uploadId", "status"},
                 {"uploadId", "status", "id"},
                 {"uploadId", "status", "id", "createdAt", "updatedAt"}}

PatchKeySets == {{"status"}, {"status", "id"}, {"status", "createdAt"}}

StoreDraft(uploadId, id) ==
  [NoRecord EXCEPT !.uploadId = uploadId, !.status = "pending", !.id = id,
                   !.createdAt = ClientTime, !.updatedAt = ClientTime]

StoreReturned(op, arg, rec, ret) ==
  [client EXCEPT ![1] = [IdleClient EXCEPT !.pc = "done", !.op = op, !.arg = arg,
                                           !.inst = rec, !.ret = ret]]

\* dataService.createDetection(draft)
StoreCreate(uploadId, id, keys) ==
  /\ issued < MaxStoreCalls
  /\ nextId <= MaxId
  /\ detections' = createDetectionList(detections, nextId, StoreDraft(uploadId, id), keys, now)
  /\ client' = StoreReturned("create", nextId,
                  newDetection(nextId, StoreDraft(uploadId, id), keys, now), FALSE)
  /\ nextId' = nextId + 1
  /\ issued' = issued + 1
  /\ boot' = Written
  /\ UNCHANGED <<uploads, now, job, timers, runs, createdOk, removedOk>>

\* How long before now the sample Detection says it started (5 seconds in
\* the source), in ticks of the clock.
SampleAge == 1

\* Detection.createSampleDetection(userId, uploadId): a completed Detection
\* with both processing times, the mock vehicle list and its statistics,
\* and no processingDuration.
SampleKeys == {"uploadId", "status", "processingStartTime", "processingEndTime",
               "results"}

createSampleDetection(uploadId, t) ==
  [NoRecord EXCEPT !.uploadId = uploadId, !.status = "completed",
                   !.processingStartTime = t - SampleAge,
                   !.processingEndTime = t,
                   !.results = mockResults]

\* Detection.create(Detection.createSampleDetection(userId, uploadId)); the
\* clock has run long enough for the start time to lie on it.
StoreCreateSample(uploadId) ==
  /\ issued < MaxStoreCalls
  /\ nextId <= MaxId
  /\ now > SampleAge
  /\ detections' = createDetectionList(detections, nextId,
                      createSampleDetection(uploadId, now), SampleKeys, now)
  /\ client' = StoreReturned("create", nextId,
                  newDetection(nextId, createSampleDetection(uploadId, now), SampleKeys, now),
                  FALSE)
  /\ nextId' = nextId + 1
  /\ issued' = issued + 1
  /\ boot' = Written
  /\ UNCHANGED <<uploads, now, job, timers, runs, createdOk, removedOk>>

\* dataService.updateDetection(id, patch): null when the id is absent.
StoreUpdate(id, status, pid, keys) ==
  /\ issued < MaxStoreCalls
  /\ LET i == FindIndex(detections, id)
         patch == [NoRecord EXCEPT !.status = status, !.id = pid,
                                   !.createdAt = ClientTime] IN
     IF i = 0
     THEN /\ detections' = detections
          /\ boot' = boot
          /\ client' = StoreReturned("update", id, NoRecord, FALSE)
     ELSE /\ boot' = Written
          /\ detections' = updateDetectionList(detections, i, patch, keys, now)
          /\ client' = StoreReturned("update", id,
                          mergedDetection(detections[i], patch, keys, now), FALSE)
  /\ issued' = issued + 1
  /\ UNCHANGED <<uploads, now, nextId, job, timers, runs, createdOk, removedOk>>

\* dataService.deleteDetection(id)
StoreDelete(id) ==
  /\ issued < MaxStoreCalls
  /\ detections' = deleteDetectionList(detections, id)
  /\ client' = StoreReturned("delete", id, NoRecord,
                  Len(deleteDetectionList(detections, id)) < Len(detections))
  /\ issued' = issued + 1
  /\ boot' = Written
  /\ UNCHANGED <<uploads, now, nextId, job, timers, runs, createdOk, removedOk>>

\* Detection.findById(id): the caller keeps the instance.
StoreLoad(id) ==
  /\ issued < MaxStoreCalls
  /\ Stored(id)
  /\ client' = [client EXCEPT ![2] = [IdleClient EXCEPT
        !.pc = "done", !.op = "load", !.arg = id, !.inst = Detection(Record(id))]]
  /\ issued' = issued + 1
  /\ UNCHANGED <<boot, uploads, detections, now, nextId, job, timers, runs, createdOk, removedOk>>

\* save() of the instance the caller holds: this.id is set, so save() calls
\* updateDetection(this.id, detectionData), assigns the result to this only
\* if there is one, and returns this.
StoreSave ==
  /\ issued < MaxStoreCalls
  /\ client[2].op = "load"
  /\ LET this == saveDerived(client[2].inst)
         i == FindIndex(detections, this.id) IN
     IF i = 0
     THEN /\ detections' = detections
          /\ boot' = boot
          /\ client' = StoreReturned("save", this.id, this, FALSE)
     ELSE /\ boot' = Written
          /\ detections' = updateDetectionList(detections, i, this, SaveKeys, now)
          /\ client' = StoreReturned("save", this.id,
                          mergedDetection(detections[i], this, SaveKeys, now), FALSE)
  /\ issued' = issued + 1
  /\ UNCHANGED <<uploads, now, nextId, job, timers, runs, createdOk, removedOk>>

StoreNext ==
  \/ Tick
  \/ \E u \in Uploads, id \in Ids, keys \in DraftKeySets : StoreCreate(u, id, keys)
  \/ \E u \in Uploads : StoreCreateSample(u)
  \/ \E id \in Ids, st \in DraftStatuses, pid \in Ids, keys \in PatchKeySets :
        StoreUpdate(id, st, pid, keys)
  \/ \E id \in Ids : StoreDelete(id)
  \/ \E id \in Ids : StoreLoad(id)
  \/ StoreSave

StoreSpec == Init /\ [][StoreNext]_vars

\* C16: after create(draft) has returned r, the lookup of r.id gives r back,
\* and the id, createdAt and updatedAt of r are the ones the server assigned
\* (the uuid it drew, its own clock), also when the draft carries these keys.
C16_CreateRoundTrip ==
  client[1].op = "create" =>
     LET r == client[1].inst IN
       /\ r.id = client[1].arg
       /\ r.createdAt \in 1..MaxTime /\ r.updatedAt \in 1..MaxTime
       /\ Stored(r.id) /\ Record(r.id) = r

\* C17: no two records of the stored collection have the same id, whatever
\* creates, updates and deletes were called and whatever their drafts and
\* patches contained.
C17_IdsAreUnique ==
  \A i, j \in 1..Len(detections) : i # j => detections[i].id # detections[j].id

\* C18: an update of an id that is not stored, by updateDetection or by the
\* save() of an instance whose record was deleted, hands the caller the
\* not-found outcome (null, not a record) and leaves the collection as it
\* was, the record not being created again.
C18_UpdateOfAbsentIdIsNotFound ==
  [][(/\ client'[1] # client[1]
      /\ client'[1].op \in {"update", "save"}
      /\ ~Stored(client'[1].arg))
        => (client'[1].inst = NoRecord /\ detections' = detections)]_vars

----------------------------------------------------------------------------
(* The server started on a detections.json that an earlier run left behind: *)
(* one Detection, created by POST /analyze and completed by its job.  No    *)
(* request is in flight and no timer is pending.                            *)

\* The record as the earlier run wrote it, all within one tick of the clock:
\* created pending by createDetection, then the two saves of the job, the
\* second with the statistics save() derives from the mock vehicle list.
SeededRecord ==
  [id |-> 1, uploadId |-> 1, status |-> "completed",
   processingStartTime |-> 1, processingEndTime |-> 1, processingDuration |-> 0,
   results |-> [mockResults EXCEPT !.occlusionPercentage = <<100, 3>>],
   annotations |-> <<>>, errorDetails |-> 0, createdAt |-> 1, updatedAt |-> 1]

SeededInit ==
  /\ detections = <<SeededRecord>>
  /\ uploads = StoredUploads
  /\ boot = Booted
  /\ now = 1
  /\ nextId = 2
  /\ client = [c \in Clients |-> IdleClient]
  /\ job = [d \in Ids |-> IdleJob]
  /\ timers = [d \in Ids |-> 0]
  /\ runs = [d \in Ids |-> 0]
  /\ createdOk = {}
  /\ removedOk = {}
  /\ issued = 0

SeededSpec == SeededInit /\ [][Next]_vars

\* The deletes of id that have returned true.
DeletedTrue(id) ==
  {c \in Clients : client[c].op = "delete" /\ client[c].arg = id /\ client[c].ret}

\* C19: a delete returns true exactly when its own write removed a record
\* with that id, and of the deletes of one id at most one returns true, also
\* when they run at the same time.
C19_DeleteTrueOnce ==
  /\ [](\A id \in Ids : Cardinality(DeletedTrue(id)) <= 1)
  /\ [][\A c \in Clients :
          (client[c].pc = "deleteWrite" /\ client'[c].pc = "done")
             => (client'[c].ret <=> (Stored(client[c].arg) /\ ~Stored(client[c].arg)'))]_vars

----------------------------------------------------------------------------
(* Annotations                                                              *)

\* s is the beginning of t.
IsPrefix(s, t) == Len(s) <= Len(t) /\ SubSeq(t, 1, Len(s)) = s

\* C20: the stored annotations of a Detection only grow at the end: every
\* annotation stays at its position in every later state of the record, also
\* across the write with which the job stores completed or failed.
C20_AnnotationsAppendOnly ==
  [][\A id \in Ids :
        (Stored(id) /\ Stored(id)')
           => IsPrefix(Record(id).annotations, Record(id)'.annotations)]_vars

----------------------------------------------------------------------------
(* The state of a record right after its creation                           *)

\* C21: right after its creation a Detection record is stored with status
\* pending and with neither processing time set, whatever the draft carried.
C21_CreatedPending ==
  (client[1].op \in {"create", "saveNew"} /\ Stored(client[1].arg))
    => LET r == Record(client[1].arg) IN
         /\ r.status = "pending"
         /\ r.processingStartTime = 0
         /\ r.processingEndTime = 0

----------------------------------------------------------------------------
(* Error details                                                            *)

\* C22: a stored Detection that carries error details has status failed.
C22_ErrorDetailsOnlyWhenFailed ==
  \A i \in 1..Len(detections) :
     detections[i].errorDetails # 0 => detections[i].status = "failed"

----------------------------------------------------------------------------
(* DELETE /api/upload/:id                                                   *)

\* Upload.findOne: 404 when the upload is not stored; then the file of the
\* upload is unlinked, which touches no collection.
UploadDeleteFind(c, u) ==
  /\ Ready(c)
  /\ LET b == Begin(c, "deleteUpload", u) IN
     IF FindIndex(uploads, u) = 0
     THEN client' = [client EXCEPT ![c] = [b EXCEPT !.pc = "done", !.resp = 404]]
     ELSE client' = [client EXCEPT ![c] = [b EXCEPT !.pc = "uploadDeleteRead"]]
  /\ issued' = issued + 1
  /\ UNCHANGED <<boot, uploads, detections, now, nextId, job, timers, runs, createdOk, removedOk>>

\* deleteUpload: the read of uploads.json and the filter.
UploadDeleteRead(c) ==
  /\ client[c].pc = "uploadDeleteRead"
  /\ client' = [client EXCEPT ![c] = [@ EXCEPT
        !.pc = "uploadDeleteWrite",
        !.buf = FilterOutId(uploads, client[c].arg)]]
  /\ UNCHANGED <<boot, uploads, detections, now, nextId, job, timers, runs, createdOk, removedOk, issued>>

\* The route removing the detections of the upload as well.
UploadDeleteWriteCascade(c) ==
  /\ client[c].pc = "uploadDeleteWrite"
  /\ uploads' = client[c].buf
  /\ detections' = SelectSeq(detections, LAMBDA d : d.uploadId # client[c].arg)
  /\ client' = [client EXCEPT ![c] = [@ EXCEPT !.pc = "done", !.resp = 200, !.buf = <<>>]]
  /\ boot' = Written
  /\ UNCHANGED <<now, nextId, job, timers, runs, createdOk, removedOk, issued>>

\* deleteUpload: the write of uploads.json, and the response.
UploadDeleteWrite(c) ==
  /\ client[c].pc = "uploadDeleteWrite"
  /\ uploads' = client[c].buf
  /\ client' = [client EXCEPT ![c] = [@ EXCEPT !.pc = "done", !.resp = 200, !.buf = <<>>]]
  /\ UNCHANGED <<boot, detections, now, nextId, job, timers, runs, createdOk, removedOk, issued>>

UploadNext ==
  \/ Next
  \/ \E c \in Clients, u \in Uploads : UploadDeleteFind(c, u)
  \/ \E c \in Clients : UploadDeleteRead(c)
  \/ \E c \in Clients : UploadDeleteWrite(c)

UploadSpec == Init /\ [][UploadNext]_vars

\* C23: no step of a request that deletes an upload changes the detections
\* collection: the Detections that refer to the upload stay stored with the
\* fields they had.
C23_UploadDeleteKeepsDetections ==
  [][\A c \in Clients :
        (client'[c].op = "deleteUpload" /\ client'[c] # client[c])
           => detections' = detections]_vars

\* An upload was deleted and a stored Detection still refers to it.
C23_Witness ==
  \E c \in Clients, i \in 1..Len(detections) :
     /\ client[c].op = "deleteUpload" /\ client[c].pc = "done" /\ client[c].resp = 200
     /\ detections[i].uploadId = client[c].arg
     /\ FindIndex(uploads, client[c].arg) = 0

----------------------------------------------------------------------------
(* Time stamps of a record                                                  *)

\* C24: the updatedAt of a stored record is never before its createdAt, and
\* it never goes back from one state of the record to the next, whichever
\* request or job writes the collection.
C24_UpdatedAtMonotone ==
  /\ [](\A i \in 1..Len(detections) : detections[i].updatedAt >= detections[i].createdAt)
  /\ [][\A id \in Ids :
          (Stored(id) /\ Stored(id)')
             => Record(id)'.updatedAt >= Record(id).updatedAt]_vars

\* C25: once a stored Detection has a processingStartTime, every later state
\* of the record has the same one, and likewise for processingEndTime.
C25_ProcessingTimesSetOnce ==
  [][\A id \in Ids :
        (Stored(id) /\ Stored(id)')
           => /\ Record(id).processingStartTime # 0
                   => Record(id)'.processingStartTime = Record(id).processingStartTime
              /\ Record(id).processingEndTime # 0
                   => Record(id)'.processingEndTime = Record(id).processingEndTime]_vars

\* C26: in every stored Detection that has both processing times, the
\* processingDuration is the end time minus the start time, whichever call
\* stored the record.
C26_DurationIsDifference ==
  \A i \in 1..Len(detections) :
     (detections[i].processingStartTime # 0 /\ detections[i].processingEndTime # 0)
        => detections[i].processingDuration
             = detections[i].processingEndTime - detections[i].processingStartTime

\* C27: an updateDetection(id, patch) leaves the id and the createdAt of the
\* record it updates as they were, whatever keys the patch has, and leaves
\* every other record of the collection as it was.
C27_UpdateKeepsIdAndCreatedAt ==
  [][(client'[1].op = "update" /\ client'[1] # client[1] /\ Stored(client'[1].arg))
        => LET i == FindIndex(detections, client'[1].arg) IN
             /\ Len(detections') = Len(detections)
             /\ detections'[i].id = detections[i].id
             /\ detections'[i].createdAt = detections[i].createdAt
             /\ \A j \in 1..Len(detections) : j # i => detections'[j] = detections[j]]_vars

----------------------------------------------------------------------------
(* initializeDataFiles, started by the constructor and not awaited, for     *)
(* detections.json.  The server starts with no detections.json (reading it  *)
(* fails, which readData turns into []), while uploads.json is there.       *)

ColdInit ==
  /\ detections = <<>>
  /\ uploads = StoredUploads
  /\ boot = [exists |-> FALSE, pc |-> "check"]
  /\ now = 1
  /\ nextId = 1
  /\ client = [c \in Clients |-> IdleClient]
  /\ job = [d \in Ids |-> IdleJob]
  /\ timers = [d \in Ids |-> 0]
  /\ runs = [d \in Ids |-> 0]
  /\ createdOk = {}
  /\ removedOk = {}
  /\ issued = 0

\* if (!await fs.pathExists(this.detectionsFile))
InitCheck ==
  /\ boot.pc = "check"
  /\ boot' = [boot EXCEPT !.pc = IF boot.exists THEN "done" ELSE "write"]
  /\ UNCHANGED <<detections, uploads, now, nextId, client, job, timers, runs,
                 createdOk, removedOk, issued>>

\* await fs.writeJson(this.detectionsFile, [])
InitWrite ==
  /\ boot.pc = "write"
  /\ detections' = <<>>
  /\ boot' = [exists |-> TRUE, pc |-> "done"]
  /\ UNCHANGED <<uploads, now, nextId, client, job, timers, runs,
                 createdOk, removedOk, issued>>

\* initializeDataFiles is run once more.
InitAgain ==
  /\ boot.pc = "done"
  /\ boot' = [boot EXCEPT !.pc = "check"]
  /\ UNCHANGED <<detections, uploads, now, nextId, client, job, timers, runs,
                 createdOk, removedOk, issued>>

InitNext ==
  \/ Next
  \/ InitCheck
  \/ InitWrite
  \/ InitAgain

InitSpec == ColdInit /\ [][InitNext]_vars

\* C28: no step of the initialization changes a collection that exists, be
\* it run once or again, alone or between the steps of a create: a record a
\* create has stored stays stored.
C28_InitKeepsExistingCollection ==
  [][(boot'.pc # boot.pc /\ boot.exists) => detections' = detections]_vars

----------------------------------------------------------------------------
(* Deleted records                                                          *)

\* C29: a Detection whose delete has returned true is in the stored
\* collection in no later state.
C29_NoResurrection ==
  \A id \in removedOk : ~Stored(id)

----------------------------------------------------------------------------
(* Status and processing times                                              *)

\* The status and the processing times of record r agree.
StatusAgreesWithTimes(r) ==
  /\ r.status = "pending" => (r.processingStartTime = 0 /\ r.processingEndTime = 0)
  /\ r.status = "processing" => (r.processingStartTime # 0 /\ r.processingEndTime = 0)
  /\ r.status \in {"completed", "failed"}
        => (r.processingStartTime # 0 /\ r.processingEndTime # 0)
  /\ r.status = "cancelled" => r.processingEndTime # 0
  /\ (r.processingStartTime # 0 /\ r.processingEndTime # 0)
        => r.processingStartTime <= r.processingEndTime

\* C30: in every stored Detection the status and the processing times agree:
\* pending has neither time, processing has a start and no end, completed and
\* failed have both, cancelled has an end, and a start is never after an end.
C30_StatusAndTimesAgree ==
  \A i \in 1..Len(detections) : StatusAgreesWithTimes(detections[i])

====
